---- MODULE Spec2Model ----
(***************************************************************************)
(* A model of the santas-sweetBot conversation engine: the User record     *)
(* (src/models/user.py), the in-memory UserService store, the OpenAI       *)
(* extraction / reply adapter, the BackendService hand-off, the            *)
(* MessageService reconciliation logic and the four Telegram handlers of   *)
(* src/bot.py.                                                             *)
(*                                                                         *)
(* Text is modelled as a sequence of tokens.  A token is a TLA+ string    *)
(* standing for one indivisible piece of text: an XML tag, a blank, a     *)
(* word, or a fixed fragment of a message template.  Python's "" is <<>>. *)
(* An Optional[str] is None (<<>>) or Some(s) (<<s>>).                    *)
(* Timestamps (created_at, last_interaction, UserMessage.timestamp) are   *)
(* not modelled.                                                          *)
(***************************************************************************)
EXTENDS Integers, Sequences, FiniteSets, TLC

VARIABLES
    users,      \* UserService.users : user id -> User
    journal,    \* per stored record: the messages handled for it, in order
    delivered,  \* number of inbound messages delivered so far
    last,       \* what the handler that ran last was given, called and returned
    running     \* the handler runs that have begun and not returned, oldest first

vars == <<users, journal, delivered, last, running>>

-----------------------------------------------------------------------------
(* Bounds and the sample inputs of the environment *)

MaxMsgs == 2

UserIds == {1}

\* two users side by side, and the messages delivered to the two of them
PairIds == {1, 2}

MaxPairMsgs == 1

\* the messages delivered to two users who both get through the dialogue
MaxSessionMsgs == 2

\* the messages delivered while the handlers are followed step by step
MaxStepMsgs == 2

\* handlers that have not returned, where they overlap
MaxRuns == 2

\* the messages of a long conversation
MaxLongMsgs == 6

\* the longest raw extraction output of the parse specification, in tokens
MaxRawLen == 4

FieldKeys == {"name", "city", "address"}

-----------------------------------------------------------------------------
(* Python values *)

None == <<>>

Some(s) == <<s>>

\* bool(x) of an Optional[str]: None and "" are falsy
Truthy(o) == o # None /\ o[1] # <<>>

\* x or ""
OrEmpty(o) == IF Truthy(o) THEN o[1] ELSE <<>>

\* sub in s, for a one-token sub
Contains(s, t) == \E i \in 1..Len(s) : s[i] = t

FirstIndex(s, t) == CHOOSE i \in 1..Len(s) : s[i] = t /\ \A j \in 1..(i - 1) : s[j] # t

\* s.split(t)[0]
SplitHead(s, t) == IF Contains(s, t) THEN SubSeq(s, 1, FirstIndex(s, t) - 1) ELSE s

\* s.split(t)[1], defined when t in s
SplitSecond(s, t) ==
    LET rest == SubSeq(s, FirstIndex(s, t) + 1, Len(s))
    IN  SplitHead(rest, t)

\* Python's s[-n:]: the last n for n > 0, all of s for n = 0, s without its
\* first -n for n < 0
LastN(s, n) ==
    IF n > 0
    THEN IF Len(s) <= n THEN s ELSE SubSeq(s, Len(s) - n + 1, Len(s))
    ELSE SubSeq(s, 1 - n, Len(s))

-----------------------------------------------------------------------------
(* src/models/user.py *)

\* UserMessage(text, is_from_user)
UserMessage(text, is_from_user) == [text |-> text, is_from_user |-> is_from_user]

\* User(id, username, first_name, last_name, language_code, is_bot): the
\* dataclass defaults leave the three delivery fields None and the history empty
User(id, username, first_name, last_name, language_code, is_bot) ==
    [id |-> id,
     username |-> username,
     first_name |-> first_name,
     last_name |-> last_name,
     language_code |-> language_code,
     is_bot |-> is_bot,
     final_name |-> None,
     final_city |-> None,
     final_address |-> None,
     conversation_history |-> <<>>]

\* a record counted as configured when any one field is filled
is_configured_any(user) ==
    Truthy(user.final_name) \/ Truthy(user.final_city) \/ Truthy(user.final_address)

\* User.is_configured
is_configured(user) ==
    Truthy(user.final_name) /\ Truthy(user.final_city) /\ Truthy(user.final_address)

\* a message put at the head of the history
User_add_message_prepend(user, text, is_from_user) ==
    [user EXCEPT !.conversation_history = <<UserMessage(text, is_from_user)>> \o @]

\* User.add_message
User_add_message(user, text, is_from_user) ==
    [user EXCEPT !.conversation_history = Append(@, UserMessage(text, is_from_user))]

\* a context cut from the head of the history
User_get_conversation_context_head(user, max_messages) ==
    LET recent_messages ==
            IF Len(user.conversation_history) <= max_messages
            THEN user.conversation_history
            ELSE SubSeq(user.conversation_history, 1, max_messages)
    IN  [i \in 1..Len(recent_messages) |->
            [role |-> IF recent_messages[i].is_from_user THEN "user" ELSE "assistant",
             content |-> recent_messages[i].text]]

\* User.get_conversation_context
User_get_conversation_context(user, max_messages) ==
    LET recent_messages ==
            IF user.conversation_history # <<>>
            THEN LastN(user.conversation_history, max_messages)
            ELSE <<>>
    IN  [i \in 1..Len(recent_messages) |->
            [role |-> IF recent_messages[i].is_from_user THEN "user" ELSE "assistant",
             content |-> recent_messages[i].text]]

\* a refresh that forgets the first name
update_from_telegram_partial(user, telegram_user) ==
    [user EXCEPT !.username = telegram_user.username,
                 !.last_name = telegram_user.last_name,
                 !.language_code = telegram_user.language_code,
                 !.is_bot = telegram_user.is_bot]

\* User.update_from_telegram: a Telegram user object has all five attributes
update_from_telegram(user, telegram_user) ==
    [user EXCEPT !.username = telegram_user.username,
                 !.first_name = telegram_user.first_name,
                 !.last_name = telegram_user.last_name,
                 !.language_code = telegram_user.language_code,
                 !.is_bot = telegram_user.is_bot]

\* a missing list that names the city before the name
User_get_missing_fields_unordered(user) ==
    (IF ~Truthy(user.final_city) THEN <<"city">> ELSE <<>>)
    \o (IF ~Truthy(user.final_name) THEN <<"name">> ELSE <<>>)
    \o (IF ~Truthy(user.final_address) THEN <<"address">> ELSE <<>>)

\* User.get_missing_fields
User_get_missing_fields(user) ==
    (IF ~Truthy(user.final_name) THEN <<"name">> ELSE <<>>)
    \o (IF ~Truthy(user.final_city) THEN <<"city">> ELSE <<>>)
    \o (IF ~Truthy(user.final_address) THEN <<"address">> ELSE <<>>)

\* User.get_filled_fields: a dict, here a function on the filled keys
get_filled_fields(user) ==
    LET value(k) == CASE k = "name" -> user.final_name
                      [] k = "city" -> user.final_city
                      [] k = "address" -> user.final_address
    IN  [k \in {f \in FieldKeys : Truthy(value(f))} |-> value(k)[1]]

-----------------------------------------------------------------------------
(* src/services/user_service.py: every method takes the store and returns   *)
(* the store it leaves (users) and, where it has one, its result (ret)      *)

\* UserService.__init__
UserService_init == << >>

\* UserService.get_user: Some(user) or None
get_user(store, user_id) ==
    IF user_id \in DOMAIN store THEN Some(store[user_id]) ELSE None

\* an assignment that replaces the whole dict by the one entry
Put_only(store, user_id, user) == [v \in {user_id} |-> user]

\* self.users[user_id] = user
Put(store, user_id, user) ==
    [v \in (DOMAIN store) \cup {user_id} |-> IF v = user_id THEN user ELSE store[v]]

\* UserService.create_user
create_user(store, telegram_user) ==
    LET user == User(telegram_user.id, telegram_user.username,
                     telegram_user.first_name, telegram_user.last_name,
                     telegram_user.language_code, telegram_user.is_bot)
    IN  [users |-> Put(store, telegram_user.id, user), ret |-> user]

\* a lookup that creates a record whether or not one exists
get_or_create_user_replaces(store, telegram_user) == create_user(store, telegram_user)

\* UserService.get_or_create_user
get_or_create_user(store, telegram_user) ==
    LET user == get_user(store, telegram_user.id)
    IN  IF user = None
        THEN create_user(store, telegram_user)
        ELSE LET updated == update_from_telegram(user[1], telegram_user)
             IN  [users |-> Put(store, telegram_user.id, updated), ret |-> updated]

\* a merge that fills only the fields that hold nothing yet
update_user_data_first_write(store, user_id, new_data) ==
    LET user == get_user(store, user_id)
        given(k) == k \in DOMAIN new_data /\ new_data[k] # <<>>
    IN  IF user = None
        THEN [users |-> store, ret |-> None]
        ELSE LET updated ==
                    [user[1] EXCEPT
                        !.final_name =
                            IF given("name") /\ ~Truthy(@)
                            THEN Some(new_data["name"]) ELSE @,
                        !.final_city =
                            IF given("city") /\ ~Truthy(@)
                            THEN Some(new_data["city"]) ELSE @,
                        !.final_address =
                            IF given("address") /\ ~Truthy(@)
                            THEN Some(new_data["address"]) ELSE @]
             IN  [users |-> Put(store, user_id, updated), ret |-> Some(updated)]

\* a merge that assigns every key the extraction carries, empty or not
update_user_data_unguarded(store, user_id, new_data) ==
    LET user == get_user(store, user_id)
        given(k) == k \in DOMAIN new_data
    IN  IF user = None
        THEN [users |-> store, ret |-> None]
        ELSE LET updated ==
                    [user[1] EXCEPT
                        !.final_name = IF given("name") THEN Some(new_data["name"]) ELSE @,
                        !.final_city = IF given("city") THEN Some(new_data["city"]) ELSE @,
                        !.final_address =
                            IF given("address") THEN Some(new_data["address"]) ELSE @]
             IN  [users |-> Put(store, user_id, updated), ret |-> Some(updated)]

\* a merge that makes the record when the store holds none for the id
update_user_data_upserts(store, user_id, new_data) ==
    LET user == get_user(store, user_id)
        given(k) == k \in DOMAIN new_data /\ new_data[k] # <<>>
        base == IF user = None THEN User(user_id, None, None, None, None, FALSE)
                ELSE user[1]
        updated ==
            [base EXCEPT
                !.final_name = IF given("name") THEN Some(new_data["name"]) ELSE @,
                !.final_city = IF given("city") THEN Some(new_data["city"]) ELSE @,
                !.final_address =
                    IF given("address") THEN Some(new_data["address"]) ELSE @]
    IN  [users |-> Put(store, user_id, updated), ret |-> Some(updated)]

\* UserService.update_user_data: new_data is a dict, a function on its keys
update_user_data(store, user_id, new_data) ==
    LET user == get_user(store, user_id)
        given(k) == k \in DOMAIN new_data /\ new_data[k] # <<>>
    IN  IF user = None
        THEN [users |-> store, ret |-> None]
        ELSE LET updated ==
                    [user[1] EXCEPT
                        !.final_name = IF given("name") THEN Some(new_data["name"]) ELSE @,
                        !.final_city = IF given("city") THEN Some(new_data["city"]) ELSE @,
                        !.final_address =
                            IF given("address") THEN Some(new_data["address"]) ELSE @]
             IN  [users |-> Put(store, user_id, updated), ret |-> Some(updated)]

\* UserService.add_message
UserService_add_message(store, user_id, message_text, is_from_user) ==
    LET user == get_user(store, user_id)
    IN  IF user = None
        THEN [users |-> store, ret |-> FALSE]
        ELSE [users |-> Put(store, user_id,
                            User_add_message(user[1], message_text, is_from_user)),
              ret |-> TRUE]

\* the default of get_conversation_context's max_messages
MaxContextMessages == 10

\* UserService.get_conversation_context
UserService_get_conversation_context(store, user_id, max_messages) ==
    LET user == get_user(store, user_id)
    IN  IF user = None THEN <<>>
        ELSE User_get_conversation_context(user[1], max_messages)

\* a delete that reports the deletion and leaves the record stored
delete_user_keeps(store, user_id) ==
    [users |-> store, ret |-> user_id \in DOMAIN store]

\* a delete that drops the whole store
delete_user_all(store, user_id) ==
    IF user_id \in DOMAIN store
    THEN [users |-> << >>, ret |-> TRUE]
    ELSE [users |-> store, ret |-> FALSE]

\* UserService.delete_user
delete_user(store, user_id) ==
    IF user_id \in DOMAIN store
    THEN [users |-> [v \in (DOMAIN store) \ {user_id} |-> store[v]], ret |-> TRUE]
    ELSE [users |-> store, ret |-> FALSE]

\* a completeness test that only looks for the record
has_all_information_present(store, user_id) == get_user(store, user_id) # None

\* UserService.has_all_information
has_all_information(store, user_id) ==
    LET user == get_user(store, user_id)
    IN  IF user = None THEN FALSE ELSE is_configured(user[1])

\* UserService.get_missing_fields
UserService_get_missing_fields(store, user_id) ==
    LET user == get_user(store, user_id)
    IN  IF user = None THEN <<"name", "city", "address">>
        ELSE User_get_missing_fields(user[1])

\* UserService.format_for_backend
format_for_backend(store, user_id) ==
    LET user == get_user(store, user_id)
    IN  IF user = None THEN <<>>
        ELSE (IF Truthy(user[1].final_name)
              THEN <<"<user_name>">> \o user[1].final_name[1] \o <<"</user_name>", "\n">>
              ELSE <<>>)
             \o (IF Truthy(user[1].final_city)
                 THEN <<"<user_city>">> \o user[1].final_city[1] \o <<"</user_city>", "\n">>
                 ELSE <<>>)
             \o (IF Truthy(user[1].final_address)
                 THEN <<"<user_address>">> \o user[1].final_address[1]
                      \o <<"</user_address>">>
                 ELSE <<>>)

-----------------------------------------------------------------------------
(* src/services/openai_service.py.  The outcome of one chat-completion     *)
(* call is given by the environment: api.ok is FALSE when the client       *)
(* raised, and otherwise api.content is the text of the first choice.      *)
(* A method that can raise returns [raised, value].                        *)

ApiError == [ok |-> FALSE, content |-> <<>>]

ApiReply(content) == [ok |-> TRUE, content |-> content]

Returned(value) == [raised |-> FALSE, value |-> value]

Raised == [raised |-> TRUE, value |-> <<>>]

OpenTag(k) == CASE k = "name" -> "<user_name>"
                [] k = "city" -> "<user_city>"
                [] k = "address" -> "<user_address>"

CloseTag(k) == CASE k = "name" -> "</user_name>"
                 [] k = "city" -> "</user_city>"
                 [] k = "address" -> "</user_address>"

\* OpenAIService._call_openai_api: any exception becomes a ValueError
_call_openai_api(api) == IF api.ok THEN Returned(api.content) ELSE Raised

\* OpenAIService._parse_ai_response
_parse_ai_response(ai_response) ==
    [k \in {f \in FieldKeys : Contains(ai_response, OpenTag(f))} |->
        SplitHead(SplitSecond(ai_response, OpenTag(k)), CloseTag(k))]

\* OpenAIService._create_system_prompt_for_extraction
_create_system_prompt_for_extraction(user) ==
    LET filled_info ==
            (IF Truthy(user.final_name)
             THEN <<"name: ">> \o user.final_name[1] ELSE <<>>)
            \o (IF Truthy(user.final_city)
                THEN <<"city: ">> \o user.final_city[1] ELSE <<>>)
            \o (IF Truthy(user.final_address)
                THEN <<"address: ">> \o user.final_address[1] ELSE <<>>)
    IN  <<"EXTRACTION_PROMPT_HEAD">>
        \o (IF filled_info # <<>>
            THEN <<"ALREADY_KNOWN: ">> \o filled_info \o <<"DO_NOT_REEXTRACT">>
            ELSE <<>>)
        \o <<"EXTRACTION_PROMPT_TAGS">>

\* OpenAIService._create_system_message_for_conversation
_create_system_message_for_conversation(missing_fields, filled_fields) ==
    [role |-> "system",
     content |-> [head |-> "CONVERSATION_PROMPT",
                  missing_fields |-> missing_fields,
                  filled_fields |-> filled_fields]]

\* the entries of the context that _create_messages_from_context appends:
\* those of role "user" or "assistant", each as a role and a content
IsDialogue(msg) == msg.role \in {"user", "assistant"}

ContextMessages(conversation_context) ==
    LET kept == SelectSeq(conversation_context, IsDialogue)
    IN  [i \in 1..Len(kept) |-> [role |-> kept[i].role, content |-> kept[i].content]]

\* a message list that takes the current message whenever one is given, empty
\* or not
_create_messages_from_context_always(system_message, conversation_context, current_message) ==
    <<system_message>>
    \o ContextMessages(conversation_context)
    \o (IF current_message # None
        THEN <<[role |-> "user", content |-> current_message[1]]>>
        ELSE <<>>)

\* OpenAIService._create_messages_from_context; current_message is Optional
_create_messages_from_context(system_message, conversation_context, current_message) ==
    <<system_message>>
    \o ContextMessages(conversation_context)
    \o (IF Truthy(current_message)
        THEN <<[role |-> "user", content |-> current_message[1]]>>
        ELSE <<>>)

\* OpenAIService.get_user_info_from_context: an exception of the call or of
\* the parse is caught and an empty dict returned
get_user_info_from_context(conversation_context, user, api) ==
    LET ai_response == _call_openai_api(api)
    IN  IF ai_response.raised
        THEN Returned(<< >>)
        ELSE Returned(_parse_ai_response(ai_response.value))

\* the messages get_user_info_from_context sends to the chat-completion call
extraction_messages(conversation_context, user) ==
    _create_messages_from_context(
        [role |-> "system", content |-> _create_system_prompt_for_extraction(user)],
        conversation_context, None)

\* the messages OpenAIService.process_user_message sends to the chat-completion
\* call
reply_messages(message_text, conversation_context, user) ==
    _create_messages_from_context(
        _create_system_message_for_conversation(User_get_missing_fields(user),
                                                get_filled_fields(user)),
        conversation_context, Some(message_text))

ApologyMessage == <<"APOLOGY_TRY_AGAIN_LATER">>

\* reply composition that lets the exception of the call through
OpenAIService_process_user_message_raises(message_text, conversation_context, user, api) ==
    _call_openai_api(api)

\* OpenAIService.process_user_message: an exception of the call is caught
\* and the apology returned
OpenAIService_process_user_message(message_text, conversation_context, user, api) ==
    LET ai_response == _call_openai_api(api)
    IN  IF ai_response.raised
        THEN Returned(ApologyMessage)
        ELSE Returned(ai_response.value)

-----------------------------------------------------------------------------
(* src/services/backend_service.py *)

\* BackendService.send_user_data: logs the data and returns True
send_user_data(formatted_data) == TRUE

-----------------------------------------------------------------------------
(* src/services/message_service.py *)

ServerErrorMessage == <<"SERVER_ERROR_WRITE_TO_SUPPORT">>

\* MessageService.get_welcome_message
get_welcome_message == <<"WELCOME">>

\* MessageService._get_complete_info_message
_get_complete_info_message(user) ==
    <<"CONFIRM_THANKS,">> \o OrEmpty(user.final_name)
    \o <<"CONFIRM_CITY:">> \o OrEmpty(user.final_city)
    \o <<"CONFIRM_ADDRESS:">> \o OrEmpty(user.final_address)
    \o <<"CONFIRM_TAIL">>

\* what a MessageService call leaves and reports: the store, whether it
\* raised, the text it returns, the collaborator calls it made in order, the
\* payloads it handed to the backend and the message lists it sent to the
\* chat-completion calls
Outcome(store, response, calls, payloads) ==
    [users |-> store, raised |-> FALSE, response |-> response,
     calls |-> calls, payloads |-> payloads, requests |-> <<>>]

Failure(store, calls) ==
    [users |-> store, raised |-> TRUE, response |-> <<>>,
     calls |-> calls, payloads |-> <<>>, requests |-> <<>>]

Sent(outcome, requests) == [outcome EXCEPT !.requests = requests]

\* handling that composes the reply from the record as it was before the
\* merge
_handle_unconfigured_user_stale(store, user_id, message_text, extraction, reply) ==
    LET conversation_context ==
            UserService_get_conversation_context(store, user_id, MaxContextMessages)
        user == get_user(store, user_id)
    IN  IF user = None
        THEN Outcome(store, ServerErrorMessage, <<>>, <<>>)
        ELSE
        LET extracted_info ==
                get_user_info_from_context(conversation_context, user[1], extraction)
            asked == <<extraction_messages(conversation_context, user[1])>>
            merged == IF DOMAIN extracted_info.value # {}
                      THEN update_user_data(store, user_id, extracted_info.value).users
                      ELSE store
            user2 == get_user(merged, user_id)
            response == OpenAIService_process_user_message(
                            message_text, conversation_context, user[1], reply)
            asked2 == Append(asked, reply_messages(message_text, conversation_context,
                                                   user[1]))
        IN  IF extracted_info.raised
            THEN Sent(Failure(store, <<"get_user_info_from_context">>), asked)
            ELSE IF user2 = None
            THEN Sent(Outcome(merged, ServerErrorMessage,
                              <<"get_user_info_from_context">>, <<>>), asked)
            ELSE IF is_configured(user2[1])
            THEN LET backend_data == format_for_backend(merged, user_id)
                     sent == send_user_data(backend_data)
                 IN  Sent(Outcome(merged, _get_complete_info_message(user2[1]),
                                  <<"get_user_info_from_context", "send_user_data">>,
                                  <<backend_data>>), asked)
            ELSE IF response.raised
            THEN Sent(Failure(merged, <<"get_user_info_from_context",
                                        "process_user_message">>), asked2)
            ELSE Sent(Outcome(merged, response.value,
                              <<"get_user_info_from_context", "process_user_message">>,
                              <<>>), asked2)

\* MessageService._handle_unconfigured_user; extraction and reply are the
\* outcomes of the two chat-completion calls, should they be made
_handle_unconfigured_user(store, user_id, message_text, extraction, reply) ==
    LET conversation_context ==
            UserService_get_conversation_context(store, user_id, MaxContextMessages)
        user == get_user(store, user_id)
    IN  IF user = None
        THEN Outcome(store, ServerErrorMessage, <<>>, <<>>)
        ELSE
        LET extracted_info ==
                get_user_info_from_context(conversation_context, user[1], extraction)
            asked == <<extraction_messages(conversation_context, user[1])>>
            merged == IF DOMAIN extracted_info.value # {}
                      THEN update_user_data(store, user_id, extracted_info.value).users
                      ELSE store
            user2 == get_user(merged, user_id)
            response == OpenAIService_process_user_message(
                            message_text, conversation_context, user2[1], reply)
            asked2 == Append(asked, reply_messages(message_text, conversation_context,
                                                   user2[1]))
        IN  IF extracted_info.raised
            THEN Sent(Failure(store, <<"get_user_info_from_context">>), asked)
            ELSE IF user2 = None
            THEN Sent(Outcome(merged, ServerErrorMessage,
                              <<"get_user_info_from_context">>, <<>>), asked)
            ELSE IF is_configured(user2[1])
            THEN LET backend_data == format_for_backend(merged, user_id)
                     sent == send_user_data(backend_data)
                 IN  Sent(Outcome(merged, _get_complete_info_message(user2[1]),
                                  <<"get_user_info_from_context", "send_user_data">>,
                                  <<backend_data>>), asked)
            ELSE IF response.raised
            THEN Sent(Failure(merged, <<"get_user_info_from_context",
                                        "process_user_message">>), asked2)
            ELSE Sent(Outcome(merged, response.value,
                              <<"get_user_info_from_context", "process_user_message">>,
                              <<>>), asked2)

\* message handling that runs the extraction for complete records too
process_user_message_always_extracts(store, user_id, message_text, extraction, reply) ==
    LET user == get_user(store, user_id)
    IN  IF user = None
        THEN Outcome(store, ServerErrorMessage, <<>>, <<>>)
        ELSE
        LET logged == UserService_add_message(store, user_id, message_text, TRUE).users
            handled == _handle_unconfigured_user(logged, user_id, message_text,
                                                 extraction, reply)
        IN  IF handled.raised
            THEN handled
            ELSE [handled EXCEPT
                    !.users = UserService_add_message(handled.users, user_id,
                                                      handled.response, FALSE).users]

\* message handling that stores an empty record for an unknown user before
\* it answers with the error message
process_user_message_autocreates(store, user_id, message_text, extraction, reply) ==
    LET user == get_user(store, user_id)
    IN  IF user = None
        THEN Outcome(Put(store, user_id, User(user_id, None, None, None, None, FALSE)),
                     ServerErrorMessage, <<>>, <<>>)
        ELSE
        LET logged == UserService_add_message(store, user_id, message_text, TRUE).users
            handled ==
                IF is_configured(logged[user_id])
                THEN Outcome(logged, _get_complete_info_message(logged[user_id]),
                             <<>>, <<>>)
                ELSE _handle_unconfigured_user(logged, user_id, message_text,
                                               extraction, reply)
        IN  IF handled.raised
            THEN handled
            ELSE [handled EXCEPT
                    !.users = UserService_add_message(handled.users, user_id,
                                                      handled.response, FALSE).users]

\* message handling that returns the reply without adding it to the history
process_user_message_unlogged(store, user_id, message_text, extraction, reply) ==
    LET user == get_user(store, user_id)
    IN  IF user = None
        THEN Outcome(store, ServerErrorMessage, <<>>, <<>>)
        ELSE
        LET logged == UserService_add_message(store, user_id, message_text, TRUE).users
        IN  IF is_configured(logged[user_id])
            THEN Outcome(logged, _get_complete_info_message(logged[user_id]),
                         <<>>, <<>>)
            ELSE _handle_unconfigured_user(logged, user_id, message_text,
                                           extraction, reply)

\* MessageService.process_user_message
process_user_message(store, user_id, message_text, extraction, reply) ==
    LET user == get_user(store, user_id)
    IN  IF user = None
        THEN Outcome(store, ServerErrorMessage, <<>>, <<>>)
        ELSE
        LET logged == UserService_add_message(store, user_id, message_text, TRUE).users
            handled ==
                IF is_configured(logged[user_id])
                THEN Outcome(logged, _get_complete_info_message(logged[user_id]),
                             <<>>, <<>>)
                ELSE _handle_unconfigured_user(logged, user_id, message_text,
                                               extraction, reply)
        IN  IF handled.raised
            THEN handled
            ELSE [handled EXCEPT
                    !.users = UserService_add_message(handled.users, user_id,
                                                      handled.response, FALSE).users]

\* MessageService.get_cancel_message
get_cancel_message(store, user_id) ==
    LET user == get_user(store, user_id)
    IN  IF user # None /\ Truthy(user[1].first_name)
        THEN <<"CANCEL_SORRY,">> \o user[1].first_name[1] \o <<"CANCEL_TAIL">>
        ELSE <<"CANCEL_SORRY">> \o <<"CANCEL_TAIL">>

-----------------------------------------------------------------------------
(* The environment: who writes, what they write, what the model answers *)

\* the Telegram profiles an update may carry for a user id
TelegramUsers(id) ==
    {[id |-> id, username |-> Some(<<"anna_k">>), first_name |-> Some(<<"Anna">>),
      last_name |-> None, language_code |-> Some(<<"ru">>), is_bot |-> FALSE],
     [id |-> id, username |-> None, first_name |-> Some(<<"Anya">>),
      last_name |-> Some(<<"K">>), language_code |-> Some(<<"en">>), is_bot |-> FALSE]}

\* what the handlers read of an update: effective_user and message are
\* Optional attributes, and so is the text of a message
Update(effective_user, message) ==
    [effective_user |-> effective_user, message |-> message]

Message(text) == [text |-> text]

\* inbound texts; process_message turns a missing text into ""
Texts == {<<>>, <<"hi">>}

\* the messages that carry them: a message without text, a message with one
Messages == {Message(IF m = <<>> THEN None ELSE Some(m)) : m \in Texts}

\* the profile of the updates whose handler reads the id only
Sender(id) == CHOOSE t \in TelegramUsers(id) : TRUE

\* an update of a user whose message is not a new message: update.message is
\* None
Edited(id) == Update(Some(Sender(id)), None)

\* an update that is not from a user: update.effective_user is None
Unsigned == Update(None, Some(Message(Some(<<"hi">>))))

\* the updates that carry a command of a user, with the profiles it may show
CommandUpdates(id) ==
    {Update(Some(t), Some(Message(Some(<<"/command">>)))) : t \in TelegramUsers(id)}
    \cup {Edited(id)}

\* the updates that carry /cancel
CancelUpdates(id) ==
    {Update(Some(Sender(id)), Some(Message(Some(<<"/cancel">>)))), Edited(id)}

\* the updates that carry a text of a user, or no user
TextUpdates(id) ==
    {Update(Some(Sender(id)), Some(message)) : message \in Messages} \cup {Unsigned}

\* tag bodies the extraction model may write: empty, blank, a value
Bodies == {<<>>, <<" ">>, <<"a">>}

Region(k, body) == <<OpenTag(k)>> \o body \o <<CloseTag(k)>>

\* the regions of the fields in keys, in the order the prompt lists them
Tagged(keys, body) ==
    (IF "name" \in keys THEN Region("name", body) ELSE <<>>)
    \o (IF "city" \in keys THEN Region("city", body) ELSE <<>>)
    \o (IF "address" \in keys THEN Region("address", body) ELSE <<>>)

\* raw extraction outputs: no tag, one field's region, or all three regions
RawOutputs ==
    {Tagged(keys, b) : keys \in {{}, {"name"}, {"city"}, {"address"}, FieldKeys},
                       b \in Bodies}

\* outcomes of the extraction call
Extractions == {ApiError} \cup {ApiReply(raw) : raw \in RawOutputs}

\* outcomes of the reply-composition call; the model may answer with no text
Replies == {ApiError, ApiReply(<<>>), ApiReply(<<"ok">>)}

\* no chat-completion call was made
NotCalled == [ok |-> FALSE, content |-> <<"NOT_CALLED">>]

\* the pieces a raw extraction output is made of: tags, white space, text
RawTokens ==
    {"<user_name>", "</user_name>", "<user_city>", "</user_city>", " ", "a"}

\* every raw extraction output of at most MaxRawLen pieces, well formed or not
AnyRawOutputs == UNION {[1..n -> RawTokens] : n \in 0..MaxRawLen}

-----------------------------------------------------------------------------
(* src/bot.py: the handlers.  A handler is a coroutine of the               *)
(* application's event loop: it runs until it awaits, and its only awaits  *)
(* are those of reply_text.  An action named after a handler is the        *)
(* handler from the update it is called with to its first await (or to its *)
(* return, when it leaves before it awaits); send_returns is a handler     *)
(* going on from an await to the next, or to its return.  The calls of the *)
(* message service and the chat-completion calls under it are plain calls  *)
(* on the event loop's thread and part of the step that makes them.        *)
(*                                                                         *)
(* When a handler is started is the application's choice, not the          *)
(* handler's.  The Application is built without concurrent_updates         *)
(* (bot.py:146), and python-telegram-bot then takes the next update only   *)
(* when the handler of the last one has returned: the specifications of    *)
(* this section start a handler only where Yielded holds.  StepSpec, below,*)
(* does without that rule of the library.                                  *)
(*                                                                         *)
(* Which handler an update reaches is decided by python-telegram-bot's     *)
(* ConversationHandler (bot.py:149-161), whose conversation key is (chat,  *)
(* user), while the store is keyed by user alone: with one user in several *)
(* chats a handler can meet any state of the store.  The specifications do *)
(* not restrict the order of the handlers: any handler can be called with  *)
(* any update in any state, which allows every order the routing allows.   *)

COLLECTING_INFO == 0

\* ConversationHandler.END
END == -1

RestartMessage == <<"RESTARTING_ALL_DATA_RESET">>

\* the record of one handler run: its name and arguments, the record the
\* store held for the user when it began (found), what
\* MessageService.process_user_message did (out), what the chat-completion
\* calls returned, the texts passed to reply_text so far and the handler's
\* result, None until it returns
Report(op, uid, found, telegram_user, text, out, extraction, reply, replies, ret) ==
    [op |-> op, uid |-> uid, found |-> found,
     telegram_user |-> telegram_user, text |-> text,
     raised |-> out.raised, response |-> out.response, calls |-> out.calls,
     payloads |-> out.payloads, requests |-> out.requests,
     extraction |-> extraction, reply |-> reply,
     replies |-> replies, ret |-> ret, guarded |-> FALSE]

NoOutcome(store) == Outcome(store, <<>>, <<>>, <<>>)

\* the journal follows the record: a created record starts with none
Journal(store, old) ==
    [v \in DOMAIN store |-> IF v \in DOMAIN old THEN old[v] ELSE <<>>]

Init ==
    /\ users = UserService_init
    /\ journal = << >>
    /\ delivered = 0
    /\ last = Report("init", 0, None, None, <<>>, NoOutcome(users), NotCalled, NotCalled,
                     <<>>, None)
    /\ running = <<>>

\* a handler run between its steps.  pc is where it stands: "extract" and
\* "reply" inside the chat-completion call of get_user_info_from_context and
\* of OpenAIService.process_user_message, "send" at an await of reply_text
\* with `awaits` of them still to return.  began is the store the run found.
\* Across a call the message service holds a reference to the User object it
\* fetched: removed is None while that object is the store's entry, and the
\* object as it was taken out of the store once delete_user has removed it
Run(op, uid, telegram_user, text, began, replies) ==
    [op |-> op, uid |-> uid, telegram_user |-> telegram_user, text |-> text,
     began |-> began, pc |-> "send", awaits |-> Len(replies), replies |-> replies,
     context |-> <<>>, removed |-> None,
     extraction |-> NotCalled, reply |-> NotCalled,
     raised |-> FALSE, response |-> <<>>, calls |-> <<>>, payloads |-> <<>>,
     requests |-> <<>>]

InCall(run) == run.pc \in {"extract", "reply"}

\* Application.builder().token(...).build(): updates are processed one at a
\* time, a handler is awaited to its return before the next update is taken
Busy(runs) == runs # <<>>

\* a chat-completion client that is awaited: a call gives the thread back
\* to the event loop until it returns
Blocked_never(runs, i) == FALSE

\* the chat-completion client is the synchronous one and is called without
\* await: a run other than i is inside such a call, and holds the thread
Blocked(runs, i) == \E j \in DOMAIN runs \ {i} : InCall(runs[j])

\* the event loop can start the handler of the next update
Yielded(runs) == ~Busy(runs) /\ ~Blocked(runs, 0)

\* what MessageService.process_user_message has done in a run
OutcomeOf(store, run) ==
    [users |-> store, raised |-> run.raised, response |-> run.response,
     calls |-> run.calls, payloads |-> run.payloads, requests |-> run.requests]

\* what the handler of a run returns, from the store as it is at the return
ResultOf(store, run) ==
    CASE run.op = "cancel" -> Some(END)
      [] run.op \in {"start", "restart"} -> Some(COLLECTING_INFO)
      [] OTHER -> IF run.raised THEN None
                  ELSE IF has_all_information(store, run.uid)
                       THEN Some(END) ELSE Some(COLLECTING_INFO)

\* the texts a run has passed to reply_text so far
Passed(run) ==
    IF run.raised THEN <<>>
    ELSE SubSeq(run.replies, 1, Len(run.replies) - run.awaits + 1)

\* the report of a run
ReportOf(run, store, ret) ==
    Report(run.op, run.uid, get_user(run.began, run.uid), run.telegram_user,
           run.text, OutcomeOf(store, run), run.extraction, run.reply,
           Passed(run), ret)

Without(runs, i) == SubSeq(runs, 1, i - 1) \o SubSeq(runs, i + 1, Len(runs))

\* the work of a run is done: it stands at await reply_text, or an exception
\* of a call has ended it.  A message handled goes to the journal of its
\* record, and the record restart has put in the place of another starts
\* with none
settled(run, store) ==
    /\ journal' =
         [v \in DOMAIN store |->
            IF v = run.uid /\ run.op = "process_message"
            THEN Append(Journal(store, journal)[v],
                        [text |-> run.text, raised |-> run.raised,
                         response |-> run.response, payloads |-> run.payloads])
            ELSE IF v = run.uid /\ run.op = "restart" THEN <<>>
            ELSE Journal(store, journal)[v]]
    /\ last' = ReportOf(run, store, None)

\* del self.users[user_id] takes the object out of the store and leaves it
\* with the runs that hold a reference to it
Removed(runs, user_id, store) ==
    [i \in DOMAIN runs |->
        IF /\ runs[i].uid = user_id
           /\ InCall(runs[i])
           /\ runs[i].removed = None
           /\ user_id \in DOMAIN store
        THEN [runs[i] EXCEPT !.removed = Some(store[user_id])]
        ELSE runs[i]]

\* a handler has run from its entry to its first await, or to the exception
\* that ends it
suspend(run, store) ==
    /\ users' = store
    /\ \E others \in {IF run.op \in {"restart", "cancel"}
                       THEN Removed(running, run.uid, users) ELSE running} :
          running' = IF run.raised THEN others ELSE Append(others, run)
    /\ settled(run, store)

\* the test every handler begins with
Unaddressed(update) == update.effective_user = None \/ update.message = None

\* the return of a handler at that test: nothing is read of the update,
\* nothing is changed and nothing is sent
guarded(op, update) ==
    /\ last' = [Report(op, 0, None, None, <<>>, NoOutcome(users), NotCalled, NotCalled,
                        <<>>, Some(END)) EXCEPT !.guarded = TRUE]
    /\ UNCHANGED <<users, journal, delivered, running>>

\* start, to its await
start(update) ==
    IF Unaddressed(update) THEN guarded("start", update) ELSE
    \E telegram_user \in {update.effective_user[1]} :
    /\ suspend(Run("start", telegram_user.id, Some(telegram_user), <<>>, users,
                   <<get_welcome_message>>),
               get_or_create_user(users, telegram_user).users)
    /\ UNCHANGED delivered

\* restart, to the first of its two awaits
restart(update) ==
    IF Unaddressed(update) THEN guarded("restart", update) ELSE
    \E telegram_user \in {update.effective_user[1]} :
    /\ suspend(Run("restart", telegram_user.id, Some(telegram_user), <<>>, users,
                   <<RestartMessage, get_welcome_message>>),
               get_or_create_user(delete_user(users, telegram_user.id).users,
                                  telegram_user).users)
    /\ UNCHANGED delivered

\* the collaborator calls a message makes, given the extraction outcome
Calls(user_id, message_text, extraction) ==
    process_user_message(users, user_id, message_text, extraction, ApiError).calls

Called(calls, name) == \E i \in DOMAIN calls : calls[i] = name

\* an outcome is drawn for a chat-completion call only where the call is made
ExtractionsOf(user_id, message_text) ==
    IF Called(Calls(user_id, message_text, ApiError), "get_user_info_from_context")
    THEN Extractions ELSE {NotCalled}

RepliesOf(user_id, message_text, extraction) ==
    IF Called(Calls(user_id, message_text, extraction), "process_user_message")
    THEN Replies ELSE {NotCalled}

\* the text process_message passes on: "" for a message without text
TextOf(message) == IF message.text = None THEN <<>> ELSE message.text[1]

\* process_message past its test to its await, with the outcomes of its
\* chat-completion calls given: an exception of process_user_message leaves
\* the handler before it replies or returns a state
process_message_given(user_id, message_text, extraction, reply) ==
    /\ delivered' = delivered + 1
    /\ \E out \in {process_user_message(users, user_id, message_text,
                                        extraction, reply)} :
            suspend([Run("process_message", user_id, None, message_text, users,
                         IF out.raised THEN <<>> ELSE <<out.response>>)
                        EXCEPT !.extraction = extraction, !.reply = reply,
                               !.raised = out.raised, !.response = out.response,
                               !.calls = out.calls, !.payloads = out.payloads,
                               !.requests = out.requests],
                    out.users)

\* process_message, to its await
process_message(update) ==
    IF Unaddressed(update) THEN guarded("process_message", update) ELSE
    \E user_id \in {update.effective_user[1].id} :
    \E message_text \in {TextOf(update.message[1])} :
    /\ delivered < MaxMsgs
    /\ \E extraction \in ExtractionsOf(user_id, message_text) :
         \E reply \in RepliesOf(user_id, message_text, extraction) :
            process_message_given(user_id, message_text, extraction, reply)

\* cancel, to its await
cancel(update) ==
    IF Unaddressed(update) THEN guarded("cancel", update) ELSE
    \E user_id \in {update.effective_user[1].id} :
    /\ \E deleted \in {delete_user(users, user_id).users} :
          suspend(Run("cancel", user_id, None, <<>>, users,
                      <<get_cancel_message(deleted, user_id)>>),
                  deleted)
    /\ UNCHANGED delivered

\* an await of reply_text returns: the handler goes on to its next await, or
\* after the last to its return, where process_message reads the store for
\* its result
send_returns(i) ==
    /\ running[i].pc = "send"
    /\ \E run \in {running[i]} :
         IF run.awaits > 1
         THEN /\ running' = [running EXCEPT ![i].awaits = @ - 1]
              /\ last' = ReportOf(running'[i], users, None)
         ELSE /\ running' = Without(running, i)
              /\ last' = ReportOf(run, users, ResultOf(users, run))
    /\ UNCHANGED <<users, journal, delivered>>

\* the application: a handler is started for the next update when the event
\* loop is free for it, and a handler that waits goes on
Next ==
    \/ /\ Yielded(running)
       /\ \E u \in UserIds : \E update \in CommandUpdates(u) : start(update)
    \/ /\ Yielded(running)
       /\ \E u \in UserIds : \E update \in CommandUpdates(u) : restart(update)
    \/ /\ Yielded(running)
       /\ \E u \in UserIds : \E update \in TextUpdates(u) : process_message(update)
    \/ /\ Yielded(running)
       /\ \E u \in UserIds : \E update \in CancelUpdates(u) : cancel(update)
    \/ \E i \in DOMAIN running : send_returns(i)

Spec == Init /\ [][Next]_vars

\* the same handlers serving two users
PairNext ==
    \/ /\ Yielded(running)
       /\ \E u \in PairIds : \E update \in CommandUpdates(u) : start(update)
    \/ /\ Yielded(running)
       /\ \E u \in PairIds : \E update \in CommandUpdates(u) : restart(update)
    \/ /\ Yielded(running)
       /\ \E u \in PairIds : \E update \in TextUpdates(u) :
            (Unaddressed(update) \/ delivered < MaxPairMsgs) /\ process_message(update)
    \/ /\ Yielded(running)
       /\ \E u \in PairIds : \E update \in CancelUpdates(u) : cancel(update)
    \/ \E i \in DOMAIN running : send_returns(i)

PairSpec == Init /\ [][PairNext]_vars

\* an extraction outcome for the first message of a record, drawn from every
\* raw output
AnyExtractionsOf(user_id, message_text) ==
    IF Called(Calls(user_id, message_text, ApiError), "get_user_info_from_context")
    THEN {ApiReply(raw) : raw \in AnyRawOutputs} ELSE {NotCalled}

\* process_message for the first message of a record
first_message(update) ==
    IF Unaddressed(update) THEN guarded("process_message", update) ELSE
    \E user_id \in {update.effective_user[1].id} :
    \E message_text \in {TextOf(update.message[1])} :
    /\ user_id \in DOMAIN users
    /\ journal[user_id] = <<>>
    /\ \E extraction \in AnyExtractionsOf(user_id, message_text) :
         \E reply \in RepliesOf(user_id, message_text, extraction) :
            process_message_given(user_id, message_text, extraction, reply)

\* a user starts and writes once; the extraction may answer anything
ParseNext ==
    \/ /\ Yielded(running)
       /\ \E u \in UserIds : \E update \in CommandUpdates(u) : start(update)
    \/ /\ Yielded(running)
       /\ \E u \in UserIds : \E update \in TextUpdates(u) : first_message(update)
    \/ \E i \in DOMAIN running : send_returns(i)

ParseSpec == Init /\ [][ParseNext]_vars

\* extraction outcomes of a short dialogue: failure, the name, all three fields
FewExtractions ==
    {ApiError, ApiReply(Tagged({"name"}, <<"a">>)), ApiReply(Tagged(FieldKeys, <<"a">>))}

\* process_message in a short dialogue; the reply call answers
session_message(update) ==
    IF Unaddressed(update) THEN guarded("process_message", update) ELSE
    \E user_id \in {update.effective_user[1].id} :
    \E message_text \in {TextOf(update.message[1])} :
    /\ delivered < MaxSessionMsgs
    /\ \E extraction \in
            (IF Called(Calls(user_id, message_text, ApiError),
                       "get_user_info_from_context")
             THEN FewExtractions ELSE {NotCalled}) :
         \E reply \in RepliesOf(user_id, message_text, extraction)
                        \ {ApiError, ApiReply(<<>>)} :
            process_message_given(user_id, message_text, extraction, reply)

\* the handlers serving two users through short dialogues
SessionsNext ==
    \/ /\ Yielded(running)
       /\ \E u \in PairIds : \E update \in CommandUpdates(u) : start(update)
    \/ /\ Yielded(running)
       /\ \E u \in PairIds : \E update \in CommandUpdates(u) : restart(update)
    \/ /\ Yielded(running)
       /\ \E u \in PairIds : \E update \in TextUpdates(u) : session_message(update)
    \/ /\ Yielded(running)
       /\ \E u \in PairIds : \E update \in CancelUpdates(u) : cancel(update)
    \/ \E i \in DOMAIN running : send_returns(i)

SessionsSpec == Init /\ [][SessionsNext]_vars

\* process_message in a long conversation: the extraction finds nothing and
\* the reply call answers or fails
long_message(update) ==
    IF Unaddressed(update) THEN guarded("process_message", update) ELSE
    \E user_id \in {update.effective_user[1].id} :
    \E message_text \in {TextOf(update.message[1])} :
    /\ delivered < MaxLongMsgs
    /\ \E extraction \in
            (IF Called(Calls(user_id, message_text, ApiError),
                       "get_user_info_from_context")
             THEN {ApiReply(<<>>)} ELSE {NotCalled}) :
         \E reply \in RepliesOf(user_id, message_text, extraction) \ {ApiReply(<<>>)} :
            process_message_given(user_id, message_text, extraction, reply)

\* a user starts and keeps writing while no field is found
LongNext ==
    \/ /\ Yielded(running)
       /\ \E u \in UserIds : \E update \in CommandUpdates(u) : start(update)
    \/ /\ Yielded(running)
       /\ \E u \in UserIds : \E update \in TextUpdates(u) : long_message(update)
    \/ \E i \in DOMAIN running : send_returns(i)

LongSpec == Init /\ [][LongNext]_vars

-----------------------------------------------------------------------------
(* process_message followed call by call.  The steps below stand a run     *)
(* inside each chat-completion call.  The client is the synchronous one    *)
(* and is called without await (openai_service.py:66-89), so a call holds  *)
(* the event loop's thread until it returns: no handler is started and no  *)
(* coroutine goes on where Blocked holds.                                  *)
(*                                                                         *)
(* The message service keeps the User object it fetched                    *)
(* (message_service.py:100) across the extraction call and fetches it      *)
(* again only when the call has found something (message_service.py:109-   *)
(* 115); every other access is a lookup by id in the store.                *)

\* the object behind the reference the message service holds: the store's
\* entry, until delete_user has taken that object out of the store
Held(store, run) ==
    IF run.removed # None THEN run.removed[1] ELSE store[run.uid]

\* process_user_message from its add_message of the response to its return,
\* which leaves the handler at await reply_text
closing(store, run) ==
    [users |-> UserService_add_message(store, run.uid, run.response, FALSE).users,
     run |-> [run EXCEPT !.pc = "send", !.awaits = 1,
                         !.replies = <<run.response>>]]

\* process_message from its entry to the first chat-completion call, or to
\* await reply_text when it makes none
opening(store, run) ==
    LET user_id == run.uid
        user == get_user(store, user_id)
    IN  IF user = None
        THEN [users |-> store,
              run |-> [run EXCEPT !.response = ServerErrorMessage, !.awaits = 1,
                                  !.replies = <<ServerErrorMessage>>]]
        ELSE
        LET logged == UserService_add_message(store, user_id, run.text, TRUE).users
            conversation_context ==
                UserService_get_conversation_context(logged, user_id, MaxContextMessages)
        IN  IF is_configured(logged[user_id])
            THEN closing(logged,
                         [run EXCEPT !.response =
                                        _get_complete_info_message(logged[user_id])])
            ELSE [users |-> logged,
                  run |-> [run EXCEPT
                             !.pc = "extract",
                             !.context = conversation_context,
                             !.removed = None,
                             !.calls = <<"get_user_info_from_context">>,
                             !.requests = <<extraction_messages(conversation_context,
                                                                logged[user_id])>>]]

\* _handle_unconfigured_user from the return of the extraction call to the
\* reply call, or through the hand-off to await reply_text.  With an empty
\* extraction `user` stays the object fetched before the call; otherwise it
\* is the store's entry after the merge, and the run holds that one from
\* then on
extracted(store, run, api) ==
    LET user_id == run.uid
        extracted_info == get_user_info_from_context(run.context, Held(store, run), api)
        answered == [run EXCEPT !.extraction = api]
        found == DOMAIN extracted_info.value # {}
        merged == IF found
                  THEN update_user_data(store, user_id, extracted_info.value).users
                  ELSE store
        user == IF found THEN get_user(merged, user_id) ELSE Some(Held(store, run))
    IN  IF extracted_info.raised
        THEN [users |-> store, run |-> [answered EXCEPT !.raised = TRUE]]
        ELSE IF user = None
        THEN closing(merged, [answered EXCEPT !.response = ServerErrorMessage])
        ELSE IF is_configured(user[1])
        THEN LET backend_data == format_for_backend(merged, user_id)
                 sent == send_user_data(backend_data)
             IN  closing(merged,
                         [answered EXCEPT
                            !.response = _get_complete_info_message(user[1]),
                            !.calls = Append(@, "send_user_data"),
                            !.payloads = <<backend_data>>])
        ELSE [users |-> merged,
              run |-> [answered EXCEPT
                         !.pc = "reply",
                         !.removed = IF found THEN None ELSE @,
                         !.calls = Append(@, "process_user_message"),
                         !.requests = Append(@, reply_messages(run.text, run.context,
                                                               user[1]))]]

\* from the return of the reply call to await reply_text
replied(store, run, api) ==
    LET response == OpenAIService_process_user_message(
                        run.text, run.context, Held(store, run), api)
        answered == [run EXCEPT !.reply = api]
    IN  IF response.raised
        THEN [users |-> store, run |-> [answered EXCEPT !.raised = TRUE]]
        ELSE closing(store, [answered EXCEPT !.response = response.value])

\* process_message, to its first chat-completion call or to its await
begin_message(update) ==
    IF Unaddressed(update) THEN guarded("process_message", update) ELSE
    \E user_id \in {update.effective_user[1].id} :
    \E message_text \in {TextOf(update.message[1])} :
    /\ delivered < MaxStepMsgs
    /\ delivered' = delivered + 1
    /\ \E after \in {opening(users, Run("process_message", user_id, None,
                                        message_text, users, <<>>))} :
          IF InCall(after.run)
          THEN /\ users' = after.users
               /\ running' = Append(running, after.run)
               /\ journal' = Journal(after.users, journal)
               /\ UNCHANGED last
          ELSE suspend(after.run, after.users)

\* run i goes on from the return of a call, to the next call, to await
\* reply_text or to the exception that ends it
advance(i, after) ==
    /\ users' = after.users
    /\ running' = IF after.run.raised THEN Without(running, i)
                  ELSE [running EXCEPT ![i] = after.run]
    /\ IF InCall(after.run) /\ ~after.run.raised
       THEN UNCHANGED <<journal, last>>
       ELSE settled(after.run, after.users)
    /\ UNCHANGED delivered

\* the chat-completion call of get_user_info_from_context returns or raises
extraction_returns(i, api) ==
    /\ running[i].pc = "extract"
    /\ \E after \in {extracted(users, running[i], api)} : advance(i, after)

\* the chat-completion call of OpenAIService.process_user_message returns or
\* raises
reply_returns(i, api) ==
    /\ running[i].pc = "reply"
    /\ \E after \in {replied(users, running[i], api)} : advance(i, after)

\* the outcomes of the reply call
FewReplies == {ApiError, ApiReply(<<"ok">>)}

\* the event loop's thread is not inside a chat-completion call
Free(runs) == ~Blocked(runs, 0)

\* The application with nothing assumed of the order in which
\* python-telegram-bot takes the updates: a handler is started, and a handler
\* that waits goes on, whenever the thread is free, so that handlers overlap
\* at their awaits.  At most MaxRuns handlers have not returned.
StepNext ==
    \/ /\ Free(running) /\ Len(running) < MaxRuns
       /\ \E u \in UserIds : \E update \in CommandUpdates(u) : start(update)
    \/ /\ Free(running) /\ Len(running) < MaxRuns
       /\ \E u \in UserIds : \E update \in CommandUpdates(u) : restart(update)
    \/ /\ Free(running) /\ Len(running) < MaxRuns
       /\ \E u \in UserIds : \E update \in TextUpdates(u) : begin_message(update)
    \/ /\ Free(running) /\ Len(running) < MaxRuns
       /\ \E u \in UserIds : \E update \in CancelUpdates(u) : cancel(update)
    \/ \E i \in DOMAIN running : \E api \in FewExtractions : extraction_returns(i, api)
    \/ \E i \in DOMAIN running : \E api \in FewReplies : reply_returns(i, api)
    \/ \E i \in DOMAIN running : ~Blocked(running, i) /\ send_returns(i)

StepSpec == Init /\ [][StepNext]_vars

\* The message service under a host that serves cancel at any time, also
\* while a chat-completion call of a message handling is outstanding.  The
\* application as it is built has no such state (Blocked); this
\* specification is the one in which the tests of the services for a record
\* that has gone (user_service.py:94-97, message_service.py:112-115,
\* user_service.py:125-128) have something to do.  One message is handled at
\* a time, and start and restart are served between the calls.
FlightNext ==
    \/ /\ Free(running) /\ Len(running) < MaxRuns
       /\ \E u \in UserIds : \E update \in CommandUpdates(u) : start(update)
    \/ /\ Free(running) /\ Len(running) < MaxRuns
       /\ \E u \in UserIds : \E update \in CommandUpdates(u) : restart(update)
    \/ /\ Free(running) /\ Len(running) < MaxRuns
       /\ \E u \in UserIds : \E update \in TextUpdates(u) : begin_message(update)
    \/ /\ Len(running) < MaxRuns
       /\ \E u \in UserIds : \E update \in CancelUpdates(u) : cancel(update)
    \/ \E i \in DOMAIN running : \E api \in FewExtractions : extraction_returns(i, api)
    \/ \E i \in DOMAIN running : \E api \in FewReplies : reply_returns(i, api)
    \/ \E i \in DOMAIN running : send_returns(i)

FlightSpec == Init /\ [][FlightNext]_vars

-----------------------------------------------------------------------------
(* Vocabulary of the properties *)

\* the value of one of the three delivery fields of a record
FieldOf(user, k) == CASE k = "name" -> user.final_name
                      [] k = "city" -> user.final_city
                      [] k = "address" -> user.final_address

FieldsOf(user) == [k \in FieldKeys |-> FieldOf(user, k)]

\* a field is set when it holds a value
IsSet(o) == o # None

\* the white-space tokens
Whitespace == {" ", "\n"}

\* a string that is empty or white space only
IsBlank(s) == \A i \in 1..Len(s) : s[i] \in Whitespace

\* a record is complete when its three fields are set
Complete(user) == \A k \in FieldKeys : IsSet(FieldOf(user, k))

\* the messages of a record's journal that handed data to the backend
HandoffSteps(u) == {i \in DOMAIN journal[u] : journal[u][i].payloads # <<>>}

\* the dict get_user_info_from_context returned in the last handler run
LastExtracted == IF last.extraction.ok THEN _parse_ai_response(last.extraction.content)
                 ELSE << >>

\* the handler that ran last, past the test it begins with: it stands at an
\* await of reply_text, or has returned, or an exception of a call ended it
Ran(op) == last.op = op /\ ~last.guarded

\* no handler stands at an await: the handler that ran last has left
AtRest == running = <<>>

\* the step is the handler from the update it is called with to its first
\* await
Enters(op) == AtRest /\ Ran(op)'

LastProcessed(u) == Ran("process_message") /\ last.uid = u

-----------------------------------------------------------------------------
(* C1 *)

\* C1: for every record the finalize hand-off (send_user_data) has run once
\* if the record is complete and not at all while it is incomplete, and no
\* message hands off twice.  A record's count therefore goes from 0 to 1 in
\* the very step that completes it: not in an earlier step, and not again in
\* any later step for the same record.
C1_ExactlyOnceFinalize ==
    \A u \in DOMAIN users :
        /\ \A i \in DOMAIN journal[u] : Len(journal[u][i].payloads) <= 1
        /\ Cardinality(HandoffSteps(u)) = IF Complete(users[u]) THEN 1 ELSE 0

\* a complete record whose first message handed off and that has handled a
\* later message since
C1_Witness ==
    \E u \in DOMAIN users :
        /\ Complete(users[u])
        /\ LastProcessed(u)
        /\ Len(journal[u]) >= 2
        /\ HandoffSteps(u) = {1}

-----------------------------------------------------------------------------
(* C2 *)

\* C2: a complete record stays complete in every step, whatever handler runs
\* and whatever the chat-completion calls return, except that restart and
\* cancel remove it; the record restart leaves in its place is a new one, with
\* no field set and no history.
C2_CompletionMonotonic ==
    [][\A u \in DOMAIN users :
         Complete(users[u]) =>
            \/ u \in DOMAIN users' /\ Complete(users'[u])
            \/ /\ last'.op \in {"restart", "cancel"}
               /\ last'.uid = u
               /\ u \in DOMAIN users' =>
                    /\ users'[u].conversation_history = <<>>
                    /\ \A k \in FieldKeys : ~IsSet(FieldOf(users'[u], k))]_vars

\* a complete record that has just handled another (empty) message
C2_Witness ==
    \E u \in DOMAIN users :
        /\ Complete(users[u])
        /\ LastProcessed(u)
        /\ last.text = <<>>
        /\ Len(users[u].conversation_history) = 4

-----------------------------------------------------------------------------
(* C3 *)

\* extraction results to merge: every dict over the three keys whose values
\* are empty or a value
SampleDicts == UNION {[keys -> {<<>>, <<"b">>}] : keys \in SUBSET FieldKeys}

\* C3: for every stored record K and every extraction result E,
\* update_user_data leaves every set field set, and leaves a set field that E
\* lacks or carries empty with the value it had.
C3_MergeNonDestructive ==
    \A u \in DOMAIN users : \A E \in SampleDicts :
        \A merged \in {update_user_data(users, u, E).users[u]} :
            \A k \in FieldKeys :
                IsSet(FieldOf(users[u], k)) =>
                    /\ Truthy(FieldOf(merged, k))
                    /\ (k \notin DOMAIN E \/ E[k] = <<>>) =>
                            FieldOf(merged, k) = FieldOf(users[u], k)

\* a message whose extraction carried all three keys with empty values was
\* merged into a record whose name was set, and the name is still there
C3_Witness ==
    \E u \in DOMAIN users :
        /\ LastProcessed(u)
        /\ DOMAIN LastExtracted = FieldKeys
        /\ LastExtracted["name"] = <<>>
        /\ IsSet(users[u].final_name)
        /\ Len(users[u].conversation_history) = 4

-----------------------------------------------------------------------------
(* C4 *)

\* C4: when the extraction call made for a message to an existing record
\* fails, process_user_message does not raise, leaves the record's three
\* fields as they were, and returns a non-empty reply.
C4_FailOpenExtraction ==
    [][(/\ Enters("process_message")
        /\ last'.extraction = ApiError
        /\ last'.uid \in DOMAIN users)
       => /\ ~last'.raised
          /\ last'.uid \in DOMAIN users'
          /\ FieldsOf(users'[last'.uid]) = FieldsOf(users[last'.uid])
          /\ last'.response # <<>>]_vars

-----------------------------------------------------------------------------
(* C5 *)

\* C5: the history of a record that has handled N messages since it was
\* created has exactly 2N entries; entry 2k-1 is the k-th submitted text with
\* origin user and entry 2k is the reply returned for it with origin system.
C5_OrderPreservation ==
    \A u \in DOMAIN users :
        /\ Len(users[u].conversation_history) = 2 * Len(journal[u])
        /\ \A k \in DOMAIN journal[u] :
            /\ ~journal[u][k].raised
            /\ users[u].conversation_history[2 * k - 1]
                    = UserMessage(journal[u][k].text, TRUE)
            /\ users[u].conversation_history[2 * k]
                    = UserMessage(journal[u][k].response, FALSE)

\* a record that has handled two messages with different texts and got
\* different replies
C5_Witness ==
    \E u \in DOMAIN users :
        /\ Len(journal[u]) = 2
        /\ journal[u][1].text # journal[u][2].text
        /\ journal[u][1].response # journal[u][2].response
        /\ Len(users[u].conversation_history) = 4

-----------------------------------------------------------------------------
(* C6 *)

\* C6: every run of process_user_message, whatever fails, returns a
\* non-empty text without raising, and the handler sends that text.
C6_AlwaysReplies ==
    Ran("process_message") =>
        /\ ~last.raised
        /\ last.response # <<>>
        /\ last.replies = <<last.response>>

-----------------------------------------------------------------------------
(* C7 *)

\* C7: each of the three fields of every stored record is unset or holds a
\* string that is neither empty nor white space only.
C7_FieldValues ==
    \A u \in DOMAIN users : \A k \in FieldKeys :
        IsSet(FieldOf(users[u], k)) => ~IsBlank(FieldOf(users[u], k)[1])

-----------------------------------------------------------------------------
(* C8 *)

\* the hand-off payload that carries exactly the three values given
PayloadOf(name, city, address) ==
    <<"<user_name>">> \o name \o <<"</user_name>", "\n">>
    \o <<"<user_city>">> \o city \o <<"</user_city>", "\n">>
    \o <<"<user_address>">> \o address \o <<"</user_address>">>

\* C8: a payload handed to the backend carries exactly the three keys name,
\* city and address, each with the record's value of that moment, and none of
\* the values is empty or white space only.
C8_HandoffPayload ==
    (Ran("process_message") /\ last.payloads # <<>>) =>
        /\ last.uid \in DOMAIN users
        /\ Complete(users[last.uid])
        /\ last.payloads = <<PayloadOf(users[last.uid].final_name[1],
                                       users[last.uid].final_city[1],
                                       users[last.uid].final_address[1])>>
        /\ \A k \in FieldKeys : ~IsBlank(FieldOf(users[last.uid], k)[1])

-----------------------------------------------------------------------------
(* C9 *)

\* the completion confirmation for the three values given
ConfirmationOf(name, city, address) ==
    <<"CONFIRM_THANKS,">> \o name \o <<"CONFIRM_CITY:">> \o city
    \o <<"CONFIRM_ADDRESS:">> \o address \o <<"CONFIRM_TAIL">>

\* C9: a message to a complete record is answered with the completion
\* confirmation built from its three fields; the message and then that reply
\* are appended to the history; neither chat-completion call nor the hand-off
\* is made, and the three fields stay as they were.
C9_Reconfirmation ==
    [][\A u \in DOMAIN users :
         (Complete(users[u]) /\ Enters("process_message") /\ last'.uid = u) =>
            /\ ~last'.raised
            /\ last'.response = ConfirmationOf(users[u].final_name[1],
                                               users[u].final_city[1],
                                               users[u].final_address[1])
            /\ last'.calls = <<>>
            /\ last'.payloads = <<>>
            /\ u \in DOMAIN users'
            /\ FieldsOf(users'[u]) = FieldsOf(users[u])
            /\ users'[u].conversation_history =
                    users[u].conversation_history
                    \o <<UserMessage(last'.text, TRUE),
                         UserMessage(last'.response, FALSE)>>]_vars

\* a complete record that answered the message "hi" with the confirmation
\* without calling a collaborator
C9_Witness ==
    \E u \in DOMAIN users :
        /\ LastProcessed(u)
        /\ last.text = <<"hi">>
        /\ last.calls = <<>>
        /\ Complete(users[u])
        /\ last.response = _get_complete_info_message(users[u])
        /\ Len(journal[u]) = 2

-----------------------------------------------------------------------------
(* C10 *)

\* C10: get_or_create_user, as start runs it: an existing record keeps its
\* three fields and its history and takes the identity attributes of the
\* Telegram user given, and no other record changes; without a record, one is
\* stored with that identity, no field set and an empty history.
C10_GetOrCreate ==
    [][Enters("start") =>
         \E t \in {last'.telegram_user[1]} :
            IF t.id \in DOMAIN users
            THEN /\ users' = [users EXCEPT ![t.id] =
                                [@ EXCEPT !.username = t.username,
                                          !.first_name = t.first_name,
                                          !.last_name = t.last_name,
                                          !.language_code = t.language_code,
                                          !.is_bot = t.is_bot]]
                 /\ journal' = journal
            ELSE /\ DOMAIN users' = DOMAIN users \cup {t.id}
                 /\ \A v \in DOMAIN users : users'[v] = users[v]
                 /\ users'[t.id] =
                        [id |-> t.id, username |-> t.username,
                         first_name |-> t.first_name, last_name |-> t.last_name,
                         language_code |-> t.language_code, is_bot |-> t.is_bot,
                         final_name |-> None, final_city |-> None,
                         final_address |-> None, conversation_history |-> <<>>]]_vars

\* start ran for a record that had a field set and a history, and the record
\* now carries the identity start was given
C10_Witness ==
    /\ Ran("start")
    /\ last.uid \in DOMAIN users
    /\ IsSet(users[last.uid].final_city)
    /\ ~Complete(users[last.uid])
    /\ Len(users[last.uid].conversation_history) = 2
    /\ users[last.uid].first_name = last.telegram_user[1].first_name

-----------------------------------------------------------------------------
(* C11 *)

\* C11: delete_user, as cancel runs it, removes the record of the id when
\* there is one and returns true exactly then; every record of another id
\* stays as it was; a second delete_user for the same id returns false and
\* leaves the store as the first left it.
C11_DeleteUser ==
    [][Enters("cancel") =>
         \A u \in {last'.uid} :
            /\ DOMAIN users' = DOMAIN users \ {u}
            /\ \A v \in DOMAIN users' : users'[v] = users[v]
            /\ delete_user(users, u).ret = (u \in DOMAIN users)
            /\ delete_user(users', u) = [users |-> users', ret |-> FALSE]]_vars

\* cancel removed a record that had a history while the other user's record,
\* started before, is still stored
C11_Witness ==
    /\ Ran("cancel")
    /\ last.found # None
    /\ last.found[1].conversation_history # <<>>
    /\ last.uid \notin DOMAIN users
    /\ \E v \in DOMAIN users : v # last.uid

-----------------------------------------------------------------------------
(* C12 *)

\* C12: after restart, whatever the store held for the user before (nothing,
\* a record with some fields set, a complete record), it holds a record of
\* the user with the identity restart was given, none of the three fields set
\* and an empty history.
C12_RestartFresh ==
    Ran("restart") =>
        /\ last.uid \in DOMAIN users
        /\ users[last.uid].id = last.uid
        /\ users[last.uid].first_name = last.telegram_user[1].first_name
        /\ \A k \in FieldKeys : ~IsSet(FieldOf(users[last.uid], k))
        /\ users[last.uid].conversation_history = <<>>
        /\ journal[last.uid] = <<>>

\* restart ran for a user whose record was complete and had a history
C12_Witness ==
    /\ Ran("restart")
    /\ last.found # None
    /\ Complete(last.found[1])
    /\ Len(last.found[1].conversation_history) >= 2
    /\ last.uid \in DOMAIN users
    /\ ~IsSet(users[last.uid].final_name)

-----------------------------------------------------------------------------
(* C13 *)

\* C13: a message for a user id that has no record is answered with the
\* generic failure message without raising; neither chat-completion call nor
\* the hand-off is made, and the store stays as it was: no record appears for
\* the id and the other records are untouched.
C13_SessionNotFound ==
    [][(Enters("process_message") /\ last'.uid \notin DOMAIN users) =>
            /\ ~last'.raised
            /\ last'.response = ServerErrorMessage
            /\ last'.replies = <<ServerErrorMessage>>
            /\ last'.calls = <<>>
            /\ last'.payloads = <<>>
            /\ users' = users]_vars

\* a message arrived for a user without a record while the other user had one
C13_Witness ==
    /\ Ran("process_message")
    /\ last.found = None
    /\ last.uid \notin DOMAIN users
    /\ last.response = ServerErrorMessage
    /\ \E v \in DOMAIN users : v # last.uid

-----------------------------------------------------------------------------
(* C15 *)

\* C15: when the reply-composition call made for a message fails,
\* process_user_message does not raise and returns the fixed apology; the
\* history grows by the message and then exactly that apology as a system
\* entry; and the record keeps what the extraction of the same step merged:
\* a field the extraction carried a value for holds that value, a field it
\* did not carry (or carried empty) is as it was before the message.
C15_ReplyFailureStatic ==
    (Ran("process_message") /\ last.reply = ApiError) =>
        \A u \in {last.uid} :
            /\ ~last.raised
            /\ last.response = ApologyMessage
            /\ last.replies = <<ApologyMessage>>
            /\ last.found # None
            /\ u \in DOMAIN users
            /\ users[u].conversation_history =
                    last.found[1].conversation_history
                    \o <<UserMessage(last.text, TRUE),
                         UserMessage(ApologyMessage, FALSE)>>
            /\ \A k \in FieldKeys :
                    IF k \in DOMAIN LastExtracted /\ ~IsBlank(LastExtracted[k])
                    THEN FieldOf(users[u], k) = Some(LastExtracted[k])
                    ELSE (k \notin DOMAIN LastExtracted \/ LastExtracted[k] = <<>>)
                            => FieldOf(users[u], k) = FieldOf(last.found[1], k)

\* the extraction of a message gave the name, the reply call then failed:
\* the apology was returned and the name is stored
C15_Witness ==
    /\ Ran("process_message")
    /\ last.reply = ApiError
    /\ last.response = ApologyMessage
    /\ last.found # None
    /\ ~IsSet(last.found[1].final_name)
    /\ DOMAIN LastExtracted = {"name"}
    /\ LastExtracted["name"] = <<"a">>
    /\ last.uid \in DOMAIN users
    /\ users[last.uid].final_name = Some(<<"a">>)

-----------------------------------------------------------------------------
(* Vocabulary of the properties about the extraction output *)

\* the raw output the extraction call of the last handler run returned
LastRaw == last.extraction.content

LastParsed == Ran("process_message") /\ last.extraction.ok

\* the places of a token in a raw output
Places(raw, t) == {i \in DOMAIN raw : raw[i] = t}

\* the raw output has a complete region of field k: an opening tag that is
\* followed by the closing tag
HasRegion(raw, k) ==
    \E i \in Places(raw, OpenTag(k)) : \E j \in Places(raw, CloseTag(k)) : i < j

\* the raw output has one region of field k and no other tag of k
OneRegion(raw, k) ==
    /\ Cardinality(Places(raw, OpenTag(k))) = 1
    /\ Cardinality(Places(raw, CloseTag(k))) = 1
    /\ HasRegion(raw, k)

\* what stands between the tags of the one region of field k
RegionBody(raw, k) ==
    LET i == CHOOSE n \in Places(raw, OpenTag(k)) : TRUE
        j == CHOOSE n \in Places(raw, CloseTag(k)) : TRUE
    IN  SubSeq(raw, i + 1, j - 1)

RECURSIVE TrimLeft(_)
TrimLeft(s) == IF s # <<>> /\ Head(s) \in Whitespace THEN TrimLeft(Tail(s)) ELSE s

RECURSIVE TrimRight(_)
TrimRight(s) ==
    IF s # <<>> /\ s[Len(s)] \in Whitespace
    THEN TrimRight(SubSeq(s, 1, Len(s) - 1)) ELSE s

\* s without its leading and trailing white space
Trim(s) == TrimRight(TrimLeft(s))

-----------------------------------------------------------------------------
(* C16 *)

\* C16: when the raw output of the extraction has a region for a field whose
\* body is empty or white space only, the parsed field map has no entry for
\* that field.
C16_BlankBodyNoEntry ==
    LastParsed =>
        \A k \in FieldKeys :
            (OneRegion(LastRaw, k) /\ IsBlank(RegionBody(LastRaw, k)))
                => k \notin DOMAIN LastExtracted

-----------------------------------------------------------------------------
(* C17 *)

\* C17: a message whose extraction carries an empty or white-space-only
\* value for a field that the record already has set leaves that field with
\* the value it had.
C17_BlankNeverOverwrites ==
    (Ran("process_message") /\ last.found # None) =>
        \A k \in FieldKeys :
            (/\ IsSet(FieldOf(last.found[1], k))
             /\ k \in DOMAIN LastExtracted
             /\ IsBlank(LastExtracted[k]))
            => /\ last.uid \in DOMAIN users
               /\ FieldOf(users[last.uid], k) = FieldOf(last.found[1], k)

-----------------------------------------------------------------------------
(* C18 *)

\* the dict that carries, for the keys given, the values the record holds
OwnValues(user, keys) == [k \in keys |-> FieldOf(user, k)[1]]

\* C18: for every stored record and every extraction result, after
\* update_user_data each field for which the result carries a non-empty value
\* holds that value, whatever it held before, and merging values equal to the
\* ones the record holds leaves the store as it was; the merge a message
\* makes does the same.
C18_LastWriteWins ==
    /\ \A u \in DOMAIN users :
        /\ \A E \in SampleDicts :
             \A merged \in {update_user_data(users, u, E).users[u]} :
                \A k \in DOMAIN E :
                    E[k] # <<>> => FieldOf(merged, k) = Some(E[k])
        /\ \A keys \in SUBSET {k \in FieldKeys : IsSet(FieldOf(users[u], k))} :
             update_user_data(users, u, OwnValues(users[u], keys)).users = users
    /\ (Ran("process_message") /\ last.found # None) =>
            \A k \in DOMAIN LastExtracted :
                LastExtracted[k] # <<>> =>
                    /\ last.uid \in DOMAIN users
                    /\ FieldOf(users[last.uid], k) = Some(LastExtracted[k])

\* a record whose name was "a" handled a message whose extraction gave the
\* name "a" again: the name is as it was, and the record is one whose name
\* the sampled merges overwrite with another value
C18_Witness ==
    /\ Ran("process_message")
    /\ last.found # None
    /\ last.found[1].final_name = Some(<<"a">>)
    /\ DOMAIN LastExtracted = {"name"}
    /\ LastExtracted["name"] = <<"a">>
    /\ last.uid \in DOMAIN users
    /\ FieldsOf(users[last.uid]) = FieldsOf(last.found[1])

-----------------------------------------------------------------------------
(* C19 *)

\* C19: the value parsed for a field whose region has a body that is not
\* blank is that body without its leading and trailing white space, and that
\* is the value the record then holds, so that the stored value neither
\* starts nor ends with white space.
C19_TrimmedValues ==
    LastParsed =>
        \A k \in FieldKeys :
            (OneRegion(LastRaw, k) /\ ~IsBlank(RegionBody(LastRaw, k)))
                => /\ k \in DOMAIN LastExtracted
                   /\ LastExtracted[k] = Trim(RegionBody(LastRaw, k))
                   /\ last.uid \in DOMAIN users
                   /\ FieldOf(users[last.uid], k) = Some(Trim(RegionBody(LastRaw, k)))

-----------------------------------------------------------------------------
(* C20 *)

\* C20: the parsed field map has an entry for a field only when the raw
\* output has a complete region for it, an opening tag followed by the
\* closing tag; an opening tag that is never closed gives no entry.
C20_CompleteRegionOnly ==
    LastParsed => \A k \in DOMAIN LastExtracted : HasRegion(LastRaw, k)

-----------------------------------------------------------------------------
(* C21 *)

\* C21: after a message to an existing record, in whichever branch it was
\* answered (confirmation again, completion, reply of the model, apology),
\* the text returned and sent is the text of the last history entry, and that
\* entry has origin system.
C21_HistoryReflectsSent ==
    (Ran("process_message") /\ last.found # None) =>
        /\ ~last.raised
        /\ last.replies = <<last.response>>
        /\ last.uid \in DOMAIN users
        /\ \A h \in {users[last.uid].conversation_history} :
                /\ Len(h) = Len(last.found[1].conversation_history) + 2
                /\ h[Len(h)] = UserMessage(last.response, FALSE)

\* the message that completed a record: the hand-off was made and the
\* confirmation returned is the last history entry
C21_Witness ==
    /\ Ran("process_message")
    /\ last.found # None
    /\ last.payloads # <<>>
    /\ last.response # <<>>
    /\ last.uid \in DOMAIN users
    /\ users[last.uid].conversation_history[2] = UserMessage(last.response, FALSE)

-----------------------------------------------------------------------------
(* C22 *)

\* the keys of a record that hold no value, in the order name, city, address
UnsetKeys(user) ==
    SelectSeq(<<"name", "city", "address">>, LAMBDA k : ~IsSet(FieldOf(user, k)))

\* the values of the keys of a record that hold one
SetValues(user) ==
    [k \in {f \in FieldKeys : IsSet(FieldOf(user, f))} |-> FieldOf(user, k)[1]]

\* the reply-composition call was made in the last handler run
LastReplied == Ran("process_message") /\ Called(last.calls, "process_user_message")

\* C22: when the reply-composition call is made, the record is incomplete
\* after the merge of that message; the call is given the missing keys and
\* the known values of the record as merged, so that a field extracted from
\* this very message is among the known and not among the missing; no
\* hand-off is made, the reply is the text the call returned, and the handler
\* returns COLLECTING_INFO.
C22_SteeringAfterMerge ==
    LastReplied =>
        /\ last.uid \in DOMAIN users
        /\ ~Complete(users[last.uid])
        /\ last.payloads = <<>>
        /\ last.ret = IF AtRest THEN Some(COLLECTING_INFO) ELSE None
        /\ last.reply.ok => last.response = last.reply.content
        /\ Len(last.requests) = 2
        /\ \A system \in {last.requests[2][1].content} :
                /\ system.missing_fields = UnsetKeys(users[last.uid])
                /\ system.filled_fields = SetValues(users[last.uid])
                /\ \A k \in DOMAIN LastExtracted :
                        LastExtracted[k] # <<>> =>
                            /\ k \in DOMAIN system.filled_fields
                            /\ system.filled_fields[k] = LastExtracted[k]
                            /\ ~Contains(system.missing_fields, k)

\* a message gave the city to a record that had no field set: the reply call
\* was told that the city is known and that name and address are missing
C22_Witness ==
    /\ LastReplied
    /\ last.found # None
    /\ ~IsSet(last.found[1].final_city)
    /\ DOMAIN LastExtracted = {"city"}
    /\ LastExtracted["city"] = <<"a">>
    /\ last.requests[2][1].content.missing_fields = <<"name", "address">>
    /\ last.response = <<"ok">>
    /\ last.ret = Some(COLLECTING_INFO)

-----------------------------------------------------------------------------
(* C23 *)

\* a message handling goes on from the return of a chat-completion call in
\* this step
GoesOn(i) ==
    /\ running[i].op = "process_message"
    /\ InCall(running[i])
    /\ Len(running') = Len(running)
    /\ running'[i] # running[i]

\* a handler of process_message is started in this step
MessageBegins ==
    /\ Len(running') = Len(running) + 1
    /\ running'[Len(running')].op = "process_message"

-----------------------------------------------------------------------------
(* C24 *)

\* a history of full exchanges: a message of the user, then the reply to it
Exchanges(history) ==
    /\ Len(history) % 2 = 0
    /\ \A k \in DOMAIN history : history[k].is_from_user = (k % 2 = 1)

\* the handlings of process_message for user u that are inside a call
Handling(u) ==
    {i \in DOMAIN running :
        running[i].op = "process_message" /\ running[i].uid = u /\ InCall(running[i])}

\* C24: at most one message handling of a user is between its entry and the
\* append of its reply.  The history it found when it began ends with the
\* reply of the handling before it, every message in it followed by its
\* reply; while it is inside a chat-completion call the history of its
\* record is that history followed by its own message and nothing else; and
\* with no handling inside a call the history is, exchange by exchange and
\* in the order the handlings began, the text and the reply of each.
C24_PerSessionOrdering ==
    \A u \in UserIds :
        /\ Cardinality(Handling(u)) <= 1
        /\ \A i \in Handling(u) : \A run \in {running[i]} :
              /\ get_user(run.began, u) # None
              /\ Exchanges(run.began[u].conversation_history)
              /\ get_user(users, u) # None
              /\ users[u].conversation_history =
                     run.began[u].conversation_history
                         \o <<UserMessage(run.text, TRUE)>>
        /\ (Handling(u) = {} /\ u \in DOMAIN users) =>
              /\ Len(users[u].conversation_history) = 2 * Len(journal[u])
              /\ \A k \in DOMAIN journal[u] :
                    /\ users[u].conversation_history[2 * k - 1]
                            = UserMessage(journal[u][k].text, TRUE)
                    /\ users[u].conversation_history[2 * k]
                            = UserMessage(journal[u][k].response, FALSE)

\* the handler of the first message still stands at its await of reply_text,
\* its reply in the history, while the second message of the user is inside
\* its reply call
C24_Witness ==
    \E i, j \in DOMAIN running :
        /\ running[i].op = "process_message"
        /\ running[j].op = "process_message"
        /\ running[i].uid = running[j].uid
        /\ running[i].pc = "send"
        /\ running[j].pc = "reply"
        /\ get_user(users, running[j].uid) # None
        /\ Len(users[running[j].uid].conversation_history) = 3
        /\ users[running[j].uid].conversation_history[2]
                = UserMessage(running[i].response, FALSE)

-----------------------------------------------------------------------------
(* C25 *)

\* C25: whatever handler runs for a user (start and restart with
\* get_or_create_user, message handling, cancel with delete_user), every
\* record of another user is after the step what it was before it, and no
\* record of another user appears or disappears.
C25_SessionsIndependent ==
    [][/\ \A v \in DOMAIN users :
            v # last'.uid => v \in DOMAIN users' /\ users'[v] = users[v]
       /\ \A v \in DOMAIN users' : v # last'.uid => v \in DOMAIN users]_vars

\* a message completed the record of one user while the store held, for the
\* other user, a record with a field set and a history
C25_Witness ==
    /\ Ran("process_message")
    /\ last.found # None
    /\ last.payloads # <<>>
    /\ \E v \in DOMAIN users :
            /\ v # last.uid
            /\ IsSet(users[v].final_name)
            /\ Len(users[v].conversation_history) = 2

-----------------------------------------------------------------------------
(* C26 *)

\* C26: for every stored record, is_configured is true exactly when
\* get_missing_fields is empty; get_missing_fields lists the keys that hold
\* no value, in the order name, city, address; and get_filled_fields has
\* exactly the other keys, each with the value the record holds.
C26_DerivedCompleteness ==
    \A u \in DOMAIN users : \A r \in {users[u]} :
        /\ is_configured(r) <=> (User_get_missing_fields(r) = <<>>)
        /\ is_configured(r) <=> Complete(r)
        /\ User_get_missing_fields(r) = UnsetKeys(r)
        /\ DOMAIN get_filled_fields(r) =
                FieldKeys \ {k \in FieldKeys : Contains(User_get_missing_fields(r), k)}
        /\ get_filled_fields(r) = SetValues(r)

\* a record that holds the city and neither name nor address
C26_Witness ==
    \E u \in DOMAIN users :
        /\ IsSet(users[u].final_city)
        /\ User_get_missing_fields(users[u]) = <<"name", "address">>
        /\ DOMAIN get_filled_fields(users[u]) = {"city"}
        /\ LastProcessed(u)

-----------------------------------------------------------------------------
(* C28 *)

\* C28: process_message returns ConversationHandler.END exactly when, after
\* the message was handled, the store holds a complete record for the user,
\* and COLLECTING_INFO in every other case, a user without a record
\* included; a message that hands off therefore ends the conversation.  The
\* store is read for the result after the reply was sent: the record it
\* finds is the one the message left.
C28_EndsWhenComplete ==
    Ran("process_message") =>
        /\ ~last.raised
        /\ AtRest =>
            /\ last.ret = IF last.uid \in DOMAIN users /\ Complete(users[last.uid])
                          THEN Some(END) ELSE Some(COLLECTING_INFO)
            /\ last.payloads # <<>> => last.ret = Some(END)
        /\ ~AtRest => last.ret = None

\* the message that completed a record handed off and ended the conversation
C28_Witness ==
    /\ Ran("process_message")
    /\ last.found # None
    /\ ~Complete(last.found[1])
    /\ last.payloads # <<>>
    /\ last.ret = Some(END)

-----------------------------------------------------------------------------
(* C29 *)

\* the cancellation text that names nobody
GenericCancelMessage == <<"CANCEL_SORRY", "CANCEL_TAIL">>

\* C29: after cancel, whatever the store held for the user, it holds no
\* record for them, the one text sent is the cancellation text that names
\* nobody, and the handler returns END: the conversation ends.
C29_CancelGeneric ==
    Ran("cancel") =>
        /\ last.uid \notin DOMAIN users
        /\ last.replies = <<GenericCancelMessage>>
        /\ last.ret = IF AtRest THEN Some(END) ELSE None

\* cancel ran for a complete record that had a first name
C29_Witness ==
    /\ Ran("cancel")
    /\ last.found # None
    /\ Complete(last.found[1])
    /\ Truthy(last.found[1].first_name)
    /\ last.replies = <<GenericCancelMessage>>
    /\ last.ret = Some(END)

-----------------------------------------------------------------------------
(* C30 *)

Min(a, b) == IF a <= b THEN a ELSE b

\* C30: the message list given to the reply-composition call for a non-empty
\* inbound text ends with that text twice, as the last entry of the context
\* and as the current message; for an empty inbound text the list ends with
\* the context, whose last entry is that empty text, once.
C30_TextTwice ==
    LastReplied =>
        \A m \in {last.requests[2]} :
        \A n \in {Min(MaxContextMessages, Len(last.found[1].conversation_history) + 1)} :
            /\ m[1].role = "system"
            /\ IF last.text # <<>>
               THEN /\ Len(m) = 1 + n + 1
                    /\ m[Len(m) - 1] = [role |-> "user", content |-> last.text]
                    /\ m[Len(m)] = [role |-> "user", content |-> last.text]
               ELSE /\ Len(m) = 1 + n
                    /\ m[Len(m)] = [role |-> "user", content |-> last.text]
                    /\ Len(m) > 2 => m[Len(m) - 1].role = "assistant"

\* the second message of a record, "hi", went to the reply call twice
C30_Witness ==
    /\ LastReplied
    /\ last.text = <<"hi">>
    /\ Len(last.found[1].conversation_history) = 2
    /\ Len(last.requests[2]) = 5
    /\ last.requests[2][4] = last.requests[2][5]

-----------------------------------------------------------------------------
(* C27 *)

\* a history entry as the chat-completion call is given it
ContextEntry(message) ==
    [role |-> IF message.is_from_user THEN "user" ELSE "assistant",
     content |-> message.text]

\* the last n entries of a history, in history order
RecentEntries(history, n) ==
    [i \in 1..n |-> ContextEntry(history[Len(history) - n + i])]

\* C27: the context given to the extraction call and to the reply call of a
\* message is the last min(10, length) entries of the history as it stands
\* with the inbound message appended, in history order, so that its final
\* entry is the inbound message; and the stored history keeps every entry in
\* place: after the message it is the history before it, the inbound message
\* and the reply.
C27_ContextWindow ==
    (Ran("process_message") /\ last.requests # <<>>) =>
        \A H \in {last.found[1].conversation_history
                    \o <<UserMessage(last.text, TRUE)>>} :
        \A n \in {Min(MaxContextMessages, Len(H))} :
            /\ \A i \in DOMAIN last.requests :
                    SubSeq(last.requests[i], 2, n + 1) = RecentEntries(H, n)
            /\ Len(last.requests[1]) = n + 1
            /\ last.requests[1][n + 1] = [role |-> "user", content |-> last.text]
            /\ users[last.uid].conversation_history
                    = H \o <<UserMessage(last.response, FALSE)>>

\* the sixth message of a record: the history had ten entries, eleven with
\* the message, and the calls were given the last ten
C27_Witness ==
    /\ Ran("process_message")
    /\ Len(last.requests) = 2
    /\ Len(last.found[1].conversation_history) = MaxContextMessages
    /\ Len(last.requests[1]) = MaxContextMessages + 1
    /\ Len(users[last.uid].conversation_history) = MaxContextMessages + 2

====
